---- MODULE Spec2Model ----
(***************************************************************************)
(* Model of extract_transactions.py: the extraction of paid line items     *)
(* from a saved purchase-history page, the CSV ledger and the aggregate    *)
(* views of the summary report.                                            *)
(*                                                                         *)
(* Text is a sequence of one-character strings, so that stripping,         *)
(* whitespace collapsing, substring tests and the regular expressions of   *)
(* the source are computed character by character.  An optional value      *)
(* (Python None or an absent element) is the empty tuple, a present value  *)
(* x is <<x>>.                                                             *)
(***************************************************************************)
EXTENDS Integers, Sequences, FiniteSets, TLC

\* ---------------------------------------------------------------- bounds
\* longest document (number of purchase blocks) drawn in Init
MaxBlocks == 3
\* longest transaction list handed to the aggregation functions
MaxTx == 4
\* amounts are held exactly, in units of 10^-FracDigits dollars
FracDigits == 3

\* ------------------------------------------------------------- text
None == <<>>
Some(x) == <<x>>
IsNone(o) == Len(o) = 0
Val(o) == o[1]

Digits == {"0","1","2","3","4","5","6","7","8","9"}
DigitSeq == <<"0","1","2","3","4","5","6","7","8","9">>
Whitespace == {" ", "\t", "\n"}
UpperSeq == <<"A","B","C","D","E","F","G","H","I","J","K","L","M","N","O","P","Q","R","S","T","U","V","W","X","Y","Z">>
LowerSeq == <<"a","b","c","d","e","f","g","h","i","j","k","l","m","n","o","p","q","r","s","t","u","v","w","x","y","z">>
\* characters in code-point order (the ones the inputs use)
CodePoints == <<"\t", "\n">> \o <<" ","!","#","$","%","&","'","(",")","*","+",",","-",".","/","0","1","2","3","4","5","6","7","8","9",":",";","<","=",">","?","@">> \o UpperSeq
                 \o <<"[","]","^","_">> \o LowerSeq \o <<"{","|","}","~","é">>
Ord(c) == CHOOSE i \in 1..Len(CodePoints) : CodePoints[i] = c
Range(s) == {s[i] : i \in 1..Len(s)}
\* \w of Python's re on str: letters (any script), digits, underscore
WordChars == Range(UpperSeq) \cup Range(LowerSeq) \cup Digits \cup {"_", "é"}

DigitVal(c) == (CHOOSE i \in 1..10 : DigitSeq[i] = c) - 1
lower(c) == IF c \in Range(UpperSeq)
            THEN LowerSeq[CHOOSE i \in 1..26 : UpperSeq[i] = c] ELSE c
LowerText(s) == [i \in 1..Len(s) |-> lower(s[i])]

RECURSIVE lstrip(_)
lstrip(s) == IF Len(s) > 0 /\ s[1] \in Whitespace THEN lstrip(Tail(s)) ELSE s
RECURSIVE rstrip(_)
rstrip(s) == IF Len(s) > 0 /\ s[Len(s)] \in Whitespace
             THEN rstrip(SubSeq(s, 1, Len(s) - 1)) ELSE s
\* str.strip()
strip(s) == rstrip(lstrip(s))

\* length of the longest prefix of s, from position p, made of characters of set
RECURSIVE RunLen(_, _, _)
RunLen(s, p, set) == IF p <= Len(s) /\ s[p] \in set THEN 1 + RunLen(s, p + 1, set) ELSE 0

\* str.split(): the maximal runs of non-whitespace characters
RECURSIVE split(_)
split(s) ==
    LET t == lstrip(s)
        n == RunLen(t, 1, Range(t) \ Whitespace)
    IN  IF Len(t) = 0 THEN <<>>
        ELSE <<SubSeq(t, 1, n)>> \o split(SubSeq(t, n + 1, Len(t)))

\* ' '.join(words)
RECURSIVE join(_)
join(words) ==
    IF Len(words) = 0 THEN <<>>
    ELSE IF Len(words) = 1 THEN words[1]
    ELSE words[1] \o <<" ">> \o join(Tail(words))

\* sub in s
Contains(sub, s) ==
    \E i \in 0..(Len(s) - Len(sub)) : SubSeq(s, i + 1, i + Len(sub)) = sub

\* s.replace(c, '')
RECURSIVE Remove(_, _)
Remove(s, c) ==
    IF Len(s) = 0 THEN <<>>
    ELSE (IF s[1] = c THEN <<>> ELSE <<s[1]>>) \o Remove(Tail(s), c)

\* lexicographic order of str
RECURSIVE StrLess(_, _)
StrLess(a, b) ==
    IF Len(b) = 0 THEN FALSE
    ELSE IF Len(a) = 0 THEN TRUE
    ELSE IF a[1] = b[1] THEN StrLess(Tail(a), Tail(b))
    ELSE Ord(a[1]) < Ord(b[1])

RECURSIVE DigitsToInt(_)
DigitsToInt(s) ==
    IF Len(s) = 0 THEN 0
    ELSE 10 * DigitsToInt(SubSeq(s, 1, Len(s) - 1)) + DigitVal(s[Len(s)])

RECURSIVE IntToDigits(_)
IntToDigits(n) ==
    IF n < 10 THEN <<DigitSeq[n + 1]>>
    ELSE IntToDigits(n \div 10) \o <<DigitSeq[(n % 10) + 1]>>

Pad2(n) == IF n < 10 THEN <<"0">> \o IntToDigits(n) ELSE IntToDigits(n)

\* ------------------------------------------------------------- dates
MonthAbbr == << <<"j","a","n">>, <<"f","e","b">>, <<"m","a","r">>, <<"a","p","r">>, <<"m","a","y">>, <<"j","u","n">>,
               <<"j","u","l">>, <<"a","u","g">>, <<"s","e","p">>, <<"o","c","t">>, <<"n","o","v">>, <<"d","e","c">> >>

IsLeap(y) == (y % 4 = 0 /\ y % 100 # 0) \/ y % 400 = 0
DaysInMonth(m, y) ==
    IF m = 2 THEN (IF IsLeap(y) THEN 29 ELSE 28)
    ELSE IF m \in {4, 6, 9, 11} THEN 30 ELSE 31

\* datetime.strptime(date_str.strip(), "%b %d, %Y").strftime("%Y-%m-%d");
\* None stands for the ValueError strptime raises.  The format is compiled
\* to (jan|...|dec)\s+(3[0-1]|[1-2]\d|0[1-9]|[1-9]| [1-9]),\s+(\d\d\d\d),
\* matched ignoring case, and the whole text must be consumed.
parse_date(date_str) ==
    LET s    == strip(date_str)
        mon  == LowerText(SubSeq(s, 1, 3))
        ws1  == RunLen(s, 4, Whitespace)
        p1   == 4 + ws1
        dl   == RunLen(s, p1, Digits)
        day  == DigitsToInt(SubSeq(s, p1, p1 + dl - 1))
        p2   == p1 + dl
        ws2  == RunLen(s, p2 + 1, Whitespace)
        p3   == p2 + 1 + ws2
        yl   == RunLen(s, p3, Digits)
        year == DigitsToInt(SubSeq(s, p3, p3 + yl - 1))
        m    == CHOOSE i \in 1..12 : MonthAbbr[i] = mon
    IN  IF /\ Len(s) >= 3
           /\ \E i \in 1..12 : MonthAbbr[i] = mon
           /\ ws1 >= 1
           /\ dl \in {1, 2}
           /\ day \in 1..31
           /\ p2 <= Len(s) /\ s[p2] = ","
           /\ ws2 >= 1
           /\ yl = 4
           /\ p3 + 4 = Len(s) + 1
           /\ year >= 1
           /\ day <= DaysInMonth(m, year)
        THEN Some(IntToDigits(year) \o <<"-">> \o Pad2(m) \o <<"-">> \o Pad2(day))
        ELSE None

\* strftime's %Y is left to the C library: a year below 1000 comes out
\* zero-filled to four digits on some platforms and bare on others (glibc).
\* parse_date is the bare outcome; the other one fills the text to the ten
\* characters of YYYY-MM-DD.
RECURSIVE ZeroFill(_)
ZeroFill(d) == IF Len(d) < 10 THEN ZeroFill(<<"0">> \o d) ELSE d

parse_date_outcomes(date_str) ==
    IF IsNone(parse_date(date_str)) THEN {None}
    ELSE {parse_date(date_str), Some(ZeroFill(Val(parse_date(date_str))))}

\* one "Mon D, YYYY" half of the date-range pattern, at position p with a
\* day of dl digits: \w{3} \d{1,2}, \d{4}
DateHalf(s, p, dl) ==
    /\ \A i \in p..(p + 2) : s[i] \in WordChars
    /\ s[p + 3] = " "
    /\ \A i \in (p + 4)..(p + 3 + dl) : s[i] \in Digits
    /\ s[p + 4 + dl] = ","
    /\ s[p + 5 + dl] = " "
    /\ \A i \in (p + 6 + dl)..(p + 9 + dl) : s[i] \in Digits

\* re.match(r'^\w{3} \d{1,2}, \d{4} - \w{3} \d{1,2}, \d{4}$', text.strip())
is_date_range(text) ==
    LET s == strip(text)
    IN  \E d1 \in {1, 2}, d2 \in {1, 2} :
           /\ Len(s) = (10 + d1) + 3 + (10 + d2)
           /\ DateHalf(s, 1, d1)
           /\ SubSeq(s, 11 + d1, 13 + d1) = <<" ","-"," ">>
           /\ DateHalf(s, 14 + d1, d2)

\* ------------------------------------------------------------- line items
\* An item node is a record
\*   label_title, div_title : optional title element [aria, text], where aria
\*       is the aria-label of the first nested div carrying the attribute
\*       (optional) and text is the element's get_text()
\*   publisher : optional text of div.pli-publisher
\*   price     : optional div.pli-price [free_span, text]
\*   subscription_info : whether div.pli-subscription-info is present
\*   icon      : optional src of the img in div.pli-artwork

\* item.find('label', class_='pli-title') or item.find('div', class_='pli-title')
title_elem(item) ==
    IF ~IsNone(item.label_title) THEN item.label_title ELSE item.div_title

\* the title text extract_item_name resolves from the title element
resolved_title(t) ==
    IF ~IsNone(t.aria) THEN strip(Val(t.aria))
    ELSE strip(join(split(t.text)))

\* publisher_div.get_text(strip=True); empty when the element is absent
publisher_text(item) ==
    IF IsNone(item.publisher) THEN <<>> ELSE strip(Val(item.publisher))

\* extract_item_name without the comparison of publisher and name
extract_item_name__no_diff_check(item) ==
    LET te == title_elem(item)
        item_name == resolved_title(Val(te))
        publisher_name == publisher_text(item)
    IN  IF IsNone(te) THEN None
        ELSE IF Len(item_name) = 0 THEN None
        ELSE IF is_date_range(item_name) /\ Len(publisher_name) > 0
             THEN Some(publisher_name)
        ELSE IF Len(publisher_name) > 0
             THEN Some(publisher_name \o <<" ","-"," ">> \o item_name)
        ELSE Some(item_name)

extract_item_name(item) ==
    LET te == title_elem(item)
        item_name == resolved_title(Val(te))
        publisher_name == publisher_text(item)
    IN  IF IsNone(te) THEN None
        ELSE IF Len(item_name) = 0 THEN None
        ELSE IF is_date_range(item_name) /\ Len(publisher_name) > 0
             THEN Some(publisher_name)
        ELSE IF Len(publisher_name) > 0 /\ publisher_name # item_name
             THEN Some(publisher_name \o <<" ","-"," ">> \o item_name)
        ELSE Some(item_name)

SubscriptionKeywords == { <<"i","C","l","o","u","d","+">>, <<"i","C","l","o","u","d">>, <<"s","u","b","s","c","r","i","p","t","i","o","n">>, <<"S","u","b","s","c","r","i","p","t","i","o","n">> }

\* is_subscription_item without the keyword test
is_subscription_item__marker_only(item) ==
    item.subscription_info

is_subscription_item(item) ==
    LET item_name == extract_item_name(item)
    IN  \/ item.subscription_info
        \/ /\ ~IsNone(item_name)
           /\ \E keyword \in SubscriptionKeywords : Contains(keyword, Val(item_name))

\* float() of a numeral "digits[.digits]", in units of 10^-FracDigits
Scale == 10 ^ FracDigits
float(numeral) ==
    LET il   == RunLen(numeral, 1, Digits)
        frac == SubSeq(numeral, il + 2, Len(numeral))
        pad  == [i \in 1..FracDigits |-> IF i <= Len(frac) THEN frac[i] ELSE "0"]
    IN  DigitsToInt(SubSeq(numeral, 1, il)) * Scale + DigitsToInt(pad)

\* re.search(r'\$([0-9]+\.?[0-9]*)', price_text): start of the leftmost
\* "$" that a digit follows, 0 when there is none
DollarAt(s) ==
    LET hits == {i \in 1..(Len(s) - 1) : s[i] = "$" /\ s[i + 1] \in Digits}
    IN  IF hits = {} THEN 0 ELSE CHOOSE i \in hits : \A j \in hits : i <= j

\* group(1) of that match
MatchedNumeral(s) ==
    LET p  == DollarAt(s) + 1
        il == RunLen(s, p, Digits)
        dl == IF p + il <= Len(s) /\ s[p + il] = "." THEN 1 ELSE 0
        fl == RunLen(s, p + il + dl, Digits)
    IN  SubSeq(s, p, p + il + dl + fl - 1)

\* extract_amount without the test float(amount) > 0
extract_amount__no_positive_check(price_element) ==
    LET price_text == strip(Val(price_element).text)
    IN  IF IsNone(price_element) THEN None
        ELSE IF Val(price_element).free_span THEN None
        ELSE IF Contains(<<"F","r","e","e">>, price_text) \/ price_text = <<"$","0",".","0","0">> \/ Len(price_text) = 0
             THEN None
        ELSE IF DollarAt(price_text) # 0
             THEN Some(<<"$">> \o MatchedNumeral(price_text))
        ELSE None

extract_amount(price_element) ==
    LET price_text == strip(Val(price_element).text)
    IN  IF IsNone(price_element) THEN None
        ELSE IF Val(price_element).free_span THEN None
        ELSE IF Contains(<<"F","r","e","e">>, price_text) \/ price_text = <<"$","0",".","0","0">> \/ Len(price_text) = 0
             THEN None
        ELSE IF DollarAt(price_text) # 0 /\ float(MatchedNumeral(price_text)) > 0
             THEN Some(<<"$">> \o MatchedNumeral(price_text))
        ELSE None

extract_icon_path(item) ==
    IF IsNone(item.icon) THEN None
    ELSE IF Len(strip(Val(item.icon))) = 0 THEN None
    ELSE Some(strip(Val(item.icon)))

\* ------------------------------------------------------------- aggregation
\* normalize_item_name_for_summary without the product families
normalize_item_name_for_summary__identity(item_name) ==
    item_name

normalize_item_name_for_summary(item_name) ==
    IF Contains(<<"i","C","l","o","u","d","+">>, item_name) THEN <<"i","C","l","o","u","d","+">>
    ELSE IF Contains(<<"P","o","k","é","m","o","n"," ","G","O">>, item_name) \/ Contains(<<"P","o","k","é","C","o","i","n","s">>, item_name)
         THEN <<"P","o","k","é","m","o","n"," ","G","O">>
    ELSE item_name

\* float(transaction['amount'].replace('$', ''))
amount_of(transaction) == float(Remove(transaction.amount, "$"))

\* position of key k in the sequence of entries d, 0 when absent
IndexOf(d, k) ==
    IF \E i \in 1..Len(d) : d[i].key = k
    THEN CHOOSE i \in 1..Len(d) : d[i].key = k ELSE 0

\* stats[k]['count'] += 1; stats[k]['total_amount'] += a, for a defaultdict
\* kept as the sequence of its entries in insertion order
Accumulate(d, k, a) ==
    LET i == IndexOf(d, k)
    IN  IF i = 0 THEN Append(d, [key |-> k, count |-> 1, total_amount |-> a])
        ELSE [d EXCEPT ![i] = [key |-> k, count |-> @.count + 1,
                               total_amount |-> @.total_amount + a]]

\* list.sort / sorted: stable insertion of e into the sorted sequence s,
\* after every element that does not have to come after it
RECURSIVE InsertByKeyAsc(_, _)
InsertByKeyAsc(s, e) ==
    IF Len(s) = 0 THEN <<e>>
    ELSE IF StrLess(e.key, s[1].key) THEN <<e>> \o s
    ELSE <<s[1]>> \o InsertByKeyAsc(Tail(s), e)

RECURSIVE SortByKeyAsc(_)
SortByKeyAsc(s) ==
    IF Len(s) = 0 THEN <<>>
    ELSE InsertByKeyAsc(SortByKeyAsc(SubSeq(s, 1, Len(s) - 1)), s[Len(s)])

RECURSIVE InsertByTotalDesc(_, _)
InsertByTotalDesc(s, e) ==
    IF Len(s) = 0 THEN <<e>>
    ELSE IF e.total_amount > s[1].total_amount THEN <<e>> \o s
    ELSE <<s[1]>> \o InsertByTotalDesc(Tail(s), e)

RECURSIVE SortByTotalDesc(_)
SortByTotalDesc(s) ==
    IF Len(s) = 0 THEN <<>>
    ELSE InsertByTotalDesc(SortByTotalDesc(SubSeq(s, 1, Len(s) - 1)), s[Len(s)])

\* transactions.sort(key=..., reverse=True) keeps the order of equal keys
RECURSIVE InsertByDateDesc(_, _)
InsertByDateDesc(s, e) ==
    IF Len(s) = 0 THEN <<e>>
    ELSE IF StrLess(s[1].date, e.date) THEN <<e>> \o s
    ELSE <<s[1]>> \o InsertByDateDesc(Tail(s), e)

RECURSIVE SortByDateDesc(_)
SortByDateDesc(s) ==
    IF Len(s) = 0 THEN <<>>
    ELSE InsertByDateDesc(SortByDateDesc(SubSeq(s, 1, Len(s) - 1)), s[Len(s)])

RECURSIVE InsertByDateAsc(_, _)
InsertByDateAsc(s, e) ==
    IF Len(s) = 0 THEN <<e>>
    ELSE IF StrLess(e.date, s[1].date) THEN <<e>> \o s
    ELSE <<s[1]>> \o InsertByDateAsc(Tail(s), e)

RECURSIVE SortByDateAsc(_)
SortByDateAsc(s) ==
    IF Len(s) = 0 THEN <<>>
    ELSE InsertByDateAsc(SortByDateAsc(SubSeq(s, 1, Len(s) - 1)), s[Len(s)])

\* the sort without reverse=True
sort_by_date_reverse__ascending(s) == SortByDateAsc(s)

\* transactions.sort(key=lambda x: x['date'], reverse=True)
sort_by_date_reverse(s) == SortByDateDesc(s)

\* the rows write_csv hands to the DictWriter, after the header
write_csv(transactions_) ==
    [i \in 1..Len(transactions_) |->
        [Date |-> transactions_[i].date,
         ItemName |-> transactions_[i].item_name,
         Amount |-> transactions_[i].amount,
         Subscription |-> IF transactions_[i].is_subscription THEN "Yes" ELSE "No"]]

\* s[:n]
Prefix(s, n) == SubSeq(s, 1, IF n < Len(s) THEN n ELSE Len(s))

\* item_stats after the loop of analyze_repeated_transactions
RECURSIVE item_stats(_)
item_stats(transactions_) ==
    IF Len(transactions_) = 0 THEN <<>>
    ELSE LET n == Len(transactions_)
             t == transactions_[n]
         IN  Accumulate(item_stats(SubSeq(transactions_, 1, n - 1)),
                        normalize_item_name_for_summary(t.item_name), amount_of(t))

analyze_repeated_transactions(transactions_) ==
    LET stats    == item_stats(transactions_)
        kept     == SelectSeq(stats, LAMBDA e : e.count > 1)
        repeated == [i \in 1..Len(kept) |->
                        [item_name |-> kept[i].key, count |-> kept[i].count,
                         total_amount |-> kept[i].total_amount]]
    IN  SortByTotalDesc(repeated)

\* yearly_stats / monthly_stats after the loop, for keys date[:n]
RECURSIVE date_stats(_, _)
date_stats(transactions_, n) ==
    IF Len(transactions_) = 0 THEN <<>>
    ELSE LET l == Len(transactions_)
             t == transactions_[l]
         IN  Accumulate(date_stats(SubSeq(transactions_, 1, l - 1), n),
                        Prefix(t.date, n), amount_of(t))

\* analyze_yearly_transactions without sorted()
analyze_yearly_transactions__unsorted(transactions_) ==
    LET stats == date_stats(transactions_, 4)
    IN  [i \in 1..Len(stats) |-> [key |-> stats[i].key, total_amount |-> stats[i].total_amount]]

analyze_yearly_transactions(transactions_) ==
    LET stats == date_stats(transactions_, 4)
    IN  SortByKeyAsc([i \in 1..Len(stats) |->
                        [key |-> stats[i].key, total_amount |-> stats[i].total_amount]])

analyze_monthly_transactions(transactions_) ==
    SortByKeyAsc(date_stats(transactions_, 7))

RECURSIVE sum_amounts(_)
sum_amounts(transactions_) ==
    IF Len(transactions_) = 0 THEN 0
    ELSE amount_of(transactions_[1]) + sum_amounts(Tail(transactions_))

\* ------------------------------------------------------------- inputs
TitleElem(aria, text) == [aria |-> aria, text |-> text]

TitleElems ==
    { TitleElem(None, <<" ","N","o","t","e","s","\n"," "," "," ","A","p","p"," ">>),
      TitleElem(Some(<<" ","i","C","l","o","u","d","+"," ","5","0","G","B"," ">>), <<"i","g","n","o","r","e","d">>),
      TitleElem(Some(<<>>), <<"N","o","t","e","s">>),
      TitleElem(Some(<<" "," ">>), <<>>),
      TitleElem(None, <<" ","\n"," ">>),
      TitleElem(None, <<"J","a","n"," ","1",","," ","2","0","2","3"," ","-"," ","J","a","n"," ","3","1",","," ","2","0","2","3">>),
      TitleElem(Some(<<"A","c","m","e">>), <<>>),
      TitleElem(None, <<"P","r","e","m","i","u","m"," ","S","u","b","s","c","r","i","p","t","i","o","n">>) }

PriceTexts ==
    { <<>>, <<"F","r","e","e">>, <<"$","0",".","0","0">>, <<"$","0">>, <<"$","0",".","0">>, <<"$","5",".">>, <<"$","1",".","5">>,
      <<"U","S","$","2",".","9","9"," ","e","a","c","h">>, <<"N","/","A">>, <<"$","0"," ","$","5">>, <<" ","$","0",".","9","9"," ">> }

Prices ==
    {[free_span |-> FALSE, text |-> t] : t \in PriceTexts}
        \cup {[free_span |-> TRUE, text |-> t] : t \in { <<"F","r","e","e">>, <<"$","1",".","5">> }}

Items ==
    [label_title : {None} \cup {Some(t) : t \in TitleElems},
     div_title : {None, Some(TitleElem(None, <<"P","o","k","é","m","o","n"," ","G","O">>))},
     publisher : {None, Some(<<>>), Some(<<" ","A","c","m","e"," ">>), Some(<<"i","C","l","o","u","d">>)},
     price : {None} \cup {Some(p) : p \in Prices},
     subscription_info : BOOLEAN,
     icon : {None}]

Item(label, div, publisher, price, sub, icon) ==
    [label_title |-> label, div_title |-> div, publisher |-> publisher,
     price |-> price, subscription_info |-> sub, icon |-> icon]
Price(text) == Some([free_span |-> FALSE, text |-> text])

NotesApp ==
    Item(Some(TitleElem(Some(<<"N","o","t","e","s"," ","A","p","p">>), <<"N","o","t","e","s"," ","A","p","p">>)), None, None,
         Price(<<"$","0",".","9","9">>), FALSE, Some(<<" ","i","c","o","n","s","/","n","o","t","e","s",".","p","n","g"," ">>))
ICloud50 ==
    Item(None, Some(TitleElem(None, <<"i","C","l","o","u","d","+"," ","5","0","G","B">>)), None,
         Price(<<"$","0",".","9","9">>), TRUE, None)
FreeGame ==
    Item(Some(TitleElem(None, <<"F","r","e","e"," ","G","a","m","e">>)), None, Some(<<"A","c","m","e">>),
         Some([free_span |-> TRUE, text |-> <<"F","r","e","e">>]), FALSE, Some(<<>>))
Renewal ==
    Item(Some(TitleElem(None, <<"J","a","n"," ","1",","," ","2","0","2","3"," ","-"," ","J","a","n"," ","3","1",","," ","2","0","2","3">>)), None, Some(<<"A","c","m","e">>),
         Price(<<"$","9",".","9","9">>), FALSE, None)
Tip ==
    Item(Some(TitleElem(None, <<"T","i","p">>)), None, None, Price(<<"$","5",".">>), FALSE, None)
Placeholder ==
    Item(None, None, None, Price(<<"$","1",".","5">>), FALSE, None)
Bonus ==
    Item(Some(TitleElem(None, <<"B","o","n","u","s"," ","P","a","c","k">>)), None, None, None, FALSE, None)

Block(date, items) == [date_span |-> date, items_list |-> items]

Blocks ==
    { Block(Some(<<"J","a","n"," ","5",","," ","2","0","2","3">>), Some(<<NotesApp, FreeGame>>)),
      Block(Some(<<"M","a","r"," ","1",","," ","2","0","2","2">>), Some(<<ICloud50, NotesApp>>)),
      Block(None, Some(<<NotesApp>>)),
      Block(Some(<<"2","0","2","3","-","0","1","-","0","5">>), Some(<<NotesApp>>)),
      Block(Some(<<"J","a","n"," ","5",","," ","2","0","2","3">>), None),
      Block(Some(<<" ","j","u","l"," "," ","1","5",","," ","2","0","2","2"," ">>), Some(<<Renewal, Tip>>)),
      Block(Some(<<"J","a","n"," ","5",","," ","2","0","2","3">>), Some(<<Placeholder, Bonus>>)),
      Block(Some(<<"F","e","b"," ","3","0",","," ","2","0","2","3">>), None),
      Block(Some(<<"J","a","n"," ","5",","," ","0","9","9","9">>), Some(<<NotesApp>>)) }

\* documents of up to MaxBlocks purchase blocks, and documents of one block
\* that holds one arbitrary item followed by a paid one
Docs ==
    UNION {[1..n -> Blocks] : n \in 0..MaxBlocks}
        \cup {<<Block(Some(<<"D","e","c"," ","3","1",","," ","2","0","2","4">>), Some(<<it, NotesApp>>))>> : it \in Items}

Tx(date, name, amount, sub) ==
    [date |-> date, item_name |-> name, amount |-> amount,
     is_subscription |-> sub, icon_path |-> None]

TxSet ==
    { Tx(<<"2","0","2","2","-","0","3","-","0","1">>, <<"i","C","l","o","u","d","+"," ","5","0","G","B">>, <<"$","0",".","9","9">>, TRUE),
      Tx(<<"2","0","2","2","-","0","7","-","1","5">>, <<"i","C","l","o","u","d","+"," ","2","T","B">>, <<"$","9",".","9","9">>, TRUE),
      Tx(<<"2","0","2","3","-","0","1","-","0","1">>, <<"P","o","k","é","C","o","i","n","s">>, <<"$","4",".","9","9">>, FALSE),
      Tx(<<"2","0","2","3","-","0","1","-","2","0">>, <<"N","i","a","n","t","i","c"," ","-"," ","P","o","k","é","m","o","n"," ","G","O">>, <<"$","1",".","5">>, FALSE),
      Tx(<<"2","0","2","2","-","0","3","-","0","9">>, <<"N","o","t","e","s">>, <<"$","3">>, FALSE),
      Tx(<<"2","0","2","3","-","0","1","-","0","1">>, <<"N","o","t","e","s">>, <<"$","1","0",".","9","8">>, FALSE) }

TxLists == UNION {[1..n -> TxSet] : n \in 0..MaxTx}

\* ------------------------------------------------------------- state
VARIABLES
    doc,            \* the purchase blocks of the parsed document
    pc,             \* position in main / extract_transactions
    purchase_i,     \* index of the current purchase block
    item_i,         \* index of the current item of the block
    formatted_date, \* local of extract_transactions
    item,           \* local: the item node last bound by the loop
    item_name,      \* local: extract_item_name(item)
    amount,         \* local: extract_amount(price_div)
    transactions,   \* the transaction list
    csv_file,       \* rows of apple_transactions.csv, None until written
    summary_file,   \* figures of the summary report, None until written
    outputs,        \* the output files in the order they were written
    repeated_data,  \* locals of generate_summary_report
    yearly_data,
    monthly_data

vars == <<doc, pc, purchase_i, item_i, formatted_date, item, item_name, amount,
          transactions, csv_file, summary_file, outputs,
          repeated_data, yearly_data, monthly_data>>

locals == <<formatted_date, item, item_name, amount>>
files == <<csv_file, summary_file, outputs>>
views == <<repeated_data, yearly_data, monthly_data>>

Init ==
    /\ doc \in Docs
    /\ pc = "purchases"
    /\ purchase_i = 0
    /\ item_i = 0
    /\ formatted_date = None
    /\ item = None
    /\ item_name = None
    /\ amount = None
    /\ transactions = <<>>
    /\ csv_file = None
    /\ summary_file = None
    /\ outputs = <<>>
    /\ repeated_data = None
    /\ yearly_data = None
    /\ monthly_data = None

\* ---- extract_transactions: the loop over the purchase blocks
purchase == doc[purchase_i + 1]

\* date_span missing: continue
SkipNoDate ==
    /\ pc = "purchases" /\ purchase_i < Len(doc)
    /\ IsNone(purchase.date_span)
    /\ purchase_i' = purchase_i + 1
    /\ UNCHANGED <<doc, pc, item_i, locals, transactions, files, views>>

\* parse_date raises ValueError; nothing catches it
RaiseBadDate ==
    /\ pc = "purchases" /\ purchase_i < Len(doc)
    /\ ~IsNone(purchase.date_span)
    /\ IsNone(parse_date(strip(Val(purchase.date_span))))
    /\ pc' = "raised"
    /\ purchase_i' = purchase_i + 1
    /\ UNCHANGED <<doc, item_i, locals, transactions, files, views>>

\* items_list missing: continue
SkipNoList ==
    /\ pc = "purchases" /\ purchase_i < Len(doc)
    /\ ~IsNone(purchase.date_span)
    /\ ~IsNone(parse_date(strip(Val(purchase.date_span))))
    /\ IsNone(purchase.items_list)
    /\ formatted_date' \in parse_date_outcomes(strip(Val(purchase.date_span)))
    /\ purchase_i' = purchase_i + 1
    /\ UNCHANGED <<doc, pc, item_i, item, item_name, amount, transactions, files, views>>

EnterItems ==
    /\ pc = "purchases" /\ purchase_i < Len(doc)
    /\ ~IsNone(purchase.date_span)
    /\ ~IsNone(parse_date(strip(Val(purchase.date_span))))
    /\ ~IsNone(purchase.items_list)
    /\ formatted_date' \in parse_date_outcomes(strip(Val(purchase.date_span)))
    /\ purchase_i' = purchase_i + 1
    /\ item_i' = 0
    /\ pc' = "items"
    /\ UNCHANGED <<doc, item, item_name, amount, transactions, files, views>>

\* ---- extract_transactions: the loop over the items of the block
items == Val(doc[purchase_i].items_list)
next_item == items[item_i + 1]

AtItem ==
    /\ pc = "items" /\ item_i < Len(items)
    /\ item' = Some(next_item)
    /\ item_name' = extract_item_name(next_item)
    /\ item_i' = item_i + 1

\* not item_name: continue
SkipNoName ==
    /\ AtItem
    /\ IsNone(extract_item_name(next_item))
    /\ UNCHANGED <<doc, pc, purchase_i, formatted_date, amount, transactions, files, views>>

\* not price_div: continue
SkipNoPrice ==
    /\ AtItem
    /\ ~IsNone(extract_item_name(next_item))
    /\ IsNone(next_item.price)
    /\ UNCHANGED <<doc, pc, purchase_i, formatted_date, amount, transactions, files, views>>

\* amount is None: continue
SkipNoAmount ==
    /\ AtItem
    /\ ~IsNone(extract_item_name(next_item))
    /\ ~IsNone(next_item.price)
    /\ IsNone(extract_amount(next_item.price))
    /\ amount' = None
    /\ UNCHANGED <<doc, pc, purchase_i, formatted_date, transactions, files, views>>

AppendTransaction ==
    /\ AtItem
    /\ ~IsNone(extract_item_name(next_item))
    /\ ~IsNone(next_item.price)
    /\ ~IsNone(extract_amount(next_item.price))
    /\ amount' = extract_amount(next_item.price)
    /\ transactions' = Append(transactions,
            [date |-> Val(formatted_date),
             item_name |-> Val(extract_item_name(next_item)),
             amount |-> Val(extract_amount(next_item.price)),
             is_subscription |-> is_subscription_item(next_item),
             icon_path |-> extract_icon_path(next_item)])
    /\ UNCHANGED <<doc, pc, purchase_i, formatted_date, files, views>>

EndItems ==
    /\ pc = "items" /\ item_i = Len(items)
    /\ pc' = "purchases"
    /\ UNCHANGED <<doc, purchase_i, item_i, locals, transactions, files, views>>

\* return transactions
ReturnTransactions ==
    /\ pc = "purchases" /\ purchase_i = Len(doc)
    /\ pc' = "main"
    /\ UNCHANGED <<doc, purchase_i, item_i, locals, transactions, files, views>>

\* ---- main
\* "No paid transactions found."
NoTransactions ==
    /\ pc = "main" /\ Len(transactions) = 0
    /\ pc' = "done"
    /\ UNCHANGED <<doc, purchase_i, item_i, locals, transactions, files, views>>

SortAndWriteCsv ==
    /\ pc = "main" /\ Len(transactions) > 0
    /\ transactions' = sort_by_date_reverse(transactions)
    /\ csv_file' = Some(write_csv(transactions'))
    /\ outputs' = Append(outputs, "apple_transactions.csv")
    /\ pc' = "summary"
    /\ UNCHANGED <<doc, purchase_i, item_i, locals, summary_file, views>>

subscription_count(transactions_) ==
    Cardinality({i \in 1..Len(transactions_) : transactions_[i].is_subscription})

GenerateSummaryReport ==
    /\ pc = "summary"
    /\ repeated_data' = Some(analyze_repeated_transactions(transactions))
    /\ yearly_data' = Some(analyze_yearly_transactions(transactions))
    /\ monthly_data' = Some(analyze_monthly_transactions(transactions))
    /\ summary_file' = Some([total_transactions |-> Len(transactions),
                             total_amount |-> sum_amounts(transactions),
                             subscription_count |-> subscription_count(transactions),
                             one_time_count |-> Len(transactions) - subscription_count(transactions)])
    /\ outputs' = Append(outputs, "apple_transactions_summary.html")
    /\ pc' = "done"
    /\ UNCHANGED <<doc, purchase_i, item_i, locals, transactions, csv_file>>

Next ==
    \/ SkipNoDate
    \/ RaiseBadDate
    \/ SkipNoList
    \/ EnterItems
    \/ SkipNoName
    \/ SkipNoPrice
    \/ SkipNoAmount
    \/ AppendTransaction
    \/ EndItems
    \/ ReturnTransactions
    \/ NoTransactions
    \/ SortAndWriteCsv
    \/ GenerateSummaryReport

Spec == Init /\ [][Next]_vars

\* ---- the aggregation functions on an arbitrary transaction list
InitAgg ==
    /\ transactions \in TxLists
    /\ pc = "analyze_repeated"
    /\ doc = <<>>
    /\ purchase_i = 0
    /\ item_i = 0
    /\ formatted_date = None
    /\ item = None
    /\ item_name = None
    /\ amount = None
    /\ csv_file = None
    /\ summary_file = None
    /\ outputs = <<>>
    /\ repeated_data = None
    /\ yearly_data = None
    /\ monthly_data = None

AnalyzeRepeated ==
    /\ pc = "analyze_repeated"
    /\ repeated_data' = Some(analyze_repeated_transactions(transactions))
    /\ pc' = "analyze_yearly"
    /\ UNCHANGED <<doc, purchase_i, item_i, locals, transactions, files,
                   yearly_data, monthly_data>>

AnalyzeYearly ==
    /\ pc = "analyze_yearly"
    /\ yearly_data' = Some(analyze_yearly_transactions(transactions))
    /\ pc' = "analyze_monthly"
    /\ UNCHANGED <<doc, purchase_i, item_i, locals, transactions, files,
                   repeated_data, monthly_data>>

AnalyzeMonthly ==
    /\ pc = "analyze_monthly"
    /\ monthly_data' = Some(analyze_monthly_transactions(transactions))
    /\ pc' = "analyzed"
    /\ UNCHANGED <<doc, purchase_i, item_i, locals, transactions, files,
                   repeated_data, yearly_data>>

NextAgg ==
    \/ AnalyzeRepeated
    \/ AnalyzeYearly
    \/ AnalyzeMonthly

AggSpec == InitAgg /\ [][NextAgg]_vars

\* ------------------------------------------------------------- properties
\* a numeral "digits" or "digits.digits"
WellFormedNumeral(n) ==
    LET il == RunLen(n, 1, Digits)
        fl == RunLen(n, il + 2, Digits)
    IN  /\ il >= 1
        /\ \/ Len(n) = il
           \/ /\ Len(n) > il + 1
              /\ n[il + 1] = "."
              /\ Len(n) = il + 1 + fl

HasNonZeroDigit(n) == \E i \in 1..Len(n) : n[i] \in Digits \ {"0"}

\* C1: every transaction of the list has an amount of the form $digits or
\* $digits.digits, and the numeral is greater than zero.
C1_AmountsWellFormed ==
    \A i \in 1..Len(transactions) :
        LET a == transactions[i].amount
        IN  /\ Len(a) >= 2
            /\ a[1] = "$"
            /\ WellFormedNumeral(Tail(a))
            /\ HasNonZeroDigit(Tail(a))

\* a block the extraction has to skip: no date element, a date text that is
\* not "Mon D, YYYY", or no item list
BlockInvalid(b) ==
    \/ IsNone(b.date_span)
    \/ IsNone(parse_date(Val(b.date_span)))
    \/ IsNone(b.items_list)

\* C2: once a block without date element, with an unparsable date or without
\* item list has been taken, the run has not aborted and is not extracting
\* items of that block: it goes on with the next block.
C2_InvalidBlocksSkipped ==
    (purchase_i >= 1 /\ BlockInvalid(doc[purchase_i])) => pc \notin {"raised", "items"}

\* the title the claim expects for a title element
ClaimedTitle(t) ==
    IF ~IsNone(t.aria) /\ Len(strip(Val(t.aria))) > 0 THEN strip(Val(t.aria))
    ELSE join(split(t.text))

\* C3: for an item with a title element the resolved title is the non-empty
\* trimmed aria-label, else the whitespace-collapsed visible text, and the
\* item is discarded only if that visible text is empty.
C3_TitleFallsBackToText ==
    (~IsNone(item) /\ ~IsNone(title_elem(Val(item)))) =>
        LET t == Val(title_elem(Val(item)))
        IN  /\ resolved_title(t) = ClaimedTitle(t)
            /\ IsNone(item_name) => Len(join(split(t.text))) = 0

\* the name the claim expects for title T and publisher text P
ClaimedName(T, P) ==
    IF is_date_range(T) /\ Len(P) > 0 THEN P
    ELSE IF is_date_range(T) THEN T
    ELSE IF Len(P) > 0 /\ P # T THEN P \o <<" ", "-", " ">> \o T
    ELSE T

\* C4: for an item with a non-empty resolved title T and publisher text P,
\* the name is P for a date-range T with non-empty P, T for a date-range T
\* with empty P, "P - T" for another T with non-empty P different from T,
\* and T otherwise.
C4_NameFromTitleAndPublisher ==
    (/\ ~IsNone(item)
     /\ ~IsNone(title_elem(Val(item)))
     /\ Len(resolved_title(Val(title_elem(Val(item))))) > 0) =>
        item_name = Some(ClaimedName(resolved_title(Val(title_elem(Val(item)))),
                                     publisher_text(Val(item))))

C4_Witness ==
    /\ ~IsNone(item)
    /\ ~IsNone(title_elem(Val(item)))
    /\ is_date_range(resolved_title(Val(title_elem(Val(item)))))
    /\ item_name = Some(<<"A", "c", "m", "e">>)
    /\ Len(transactions) > 0
    /\ transactions[Len(transactions)].item_name = <<"A", "c", "m", "e">>

\* the item step of extract_transactions
ItemStep == pc = "items" /\ item_i' = item_i + 1

\* the price conditions under which the claim expects no transaction
PriceDiscarded(it) ==
    \/ IsNone(it.price)
    \/ LET p == Val(it.price)
           s == strip(p.text)
       IN  \/ p.free_span
           \/ Contains(<<"F", "r", "e", "e">>, s)
           \/ s = <<"$", "0", ".", "0", "0">>
           \/ Len(s) = 0
           \/ ~\E i \in 1..(Len(s) - 1) : s[i] = "$" /\ s[i + 1] \in Digits
           \/ ~HasNonZeroDigit(MatchedNumeral(s))

\* C5: a step over an item whose price is absent, free, "$0.00", empty,
\* without "$digits" or not greater than zero leaves the transaction list as
\* it is; a step over any other item that has a name appends one transaction;
\* no item step changes the transactions already in the list.
C5_UnpricedItemsDiscarded ==
    [][ItemStep =>
          LET it == items[item_i + 1]
          IN  /\ PriceDiscarded(it) => transactions' = transactions
              /\ (~PriceDiscarded(it) /\ ~IsNone(item_name')) =>
                     Len(transactions') = Len(transactions) + 1
              /\ SubSeq(transactions', 1, Len(transactions)) = transactions]_vars

C5_Witness ==
    /\ pc = "items" /\ item_i = 2
    /\ LET first == items[1]
       IN  /\ ~IsNone(first.price)
           /\ strip(Val(first.price).text) = <<"$", "0">>
           /\ ~IsNone(extract_item_name(first))
    /\ Len(transactions) = 1
    /\ transactions[1].item_name = <<"N", "o", "t", "e", "s", " ", "A", "p", "p">>

ClaimedKeywords ==
    { <<"i", "C", "l", "o", "u", "d", "+">>, <<"i", "C", "l", "o", "u", "d">>,
      <<"s", "u", "b", "s", "c", "r", "i", "p", "t", "i", "o", "n">>,
      <<"S", "u", "b", "s", "c", "r", "i", "p", "t", "i", "o", "n">> }

\* C6: the transaction an item step appends has is_subscription true exactly
\* when the item has the subscription-info element or the stored item_name
\* contains iCloud+, iCloud, subscription or Subscription.
C6_SubscriptionFlag ==
    [][(ItemStep /\ Len(transactions') = Len(transactions) + 1) =>
          LET it == items[item_i + 1]
              t  == transactions'[Len(transactions')]
          IN  t.is_subscription <=>
                  (\/ it.subscription_info
                   \/ \E k \in ClaimedKeywords : Contains(k, t.item_name))]_vars

C6_Witness ==
    /\ pc = "items"
    /\ ~IsNone(item)
    /\ ~Val(item).subscription_info
    /\ publisher_text(Val(item)) = <<"i", "C", "l", "o", "u", "d">>
    /\ Len(transactions) = 1
    /\ transactions[1].is_subscription
    /\ item_name = Some(transactions[1].item_name)

\* the grouping key the claim gives a name
ClaimedKey(name) ==
    IF Contains(<<"i", "C", "l", "o", "u", "d", "+">>, name)
    THEN <<"i", "C", "l", "o", "u", "d", "+">>
    ELSE IF \/ Contains(<<"P", "o", "k", "é", "m", "o", "n", " ", "G", "O">>, name)
            \/ Contains(<<"P", "o", "k", "é", "C", "o", "i", "n", "s">>, name)
         THEN <<"P", "o", "k", "é", "m", "o", "n", " ", "G", "O">>
    ELSE name

RECURSIVE SumOver(_, _)
SumOver(f, n) == IF n = 0 THEN 0 ELSE f[n] + SumOver(f, n - 1)

\* number and amount sum of the transactions that satisfy the predicate row
CountWhere(sel) == Cardinality({i \in DOMAIN sel : sel[i]})
TotalWhere(sel) ==
    SumOver([i \in DOMAIN sel |-> IF sel[i] THEN amount_of(transactions[i]) ELSE 0],
            Len(transactions))

WithKey(k) == [i \in 1..Len(transactions) |-> ClaimedKey(transactions[i].item_name) = k]

\* C7: the repeated-items view has exactly one entry for every normalized key
\* of at least two transactions, with the number and the amount sum of these
\* transactions, and no other entry; totals do not increase along the view.
C7_RepeatedItems ==
    ~IsNone(repeated_data) =>
        LET r == Val(repeated_data)
        IN  /\ \A i, j \in 1..Len(r) : r[i].item_name = r[j].item_name => i = j
            /\ \A i \in 1..Len(r) :
                   /\ r[i].count = CountWhere(WithKey(r[i].item_name))
                   /\ r[i].count >= 2
                   /\ r[i].total_amount = TotalWhere(WithKey(r[i].item_name))
            /\ \A i \in 1..Len(transactions) :
                   LET k == ClaimedKey(transactions[i].item_name)
                   IN  CountWhere(WithKey(k)) >= 2 =>
                           \E j \in 1..Len(r) : r[j].item_name = k
            /\ \A i, j \in 1..Len(r) : i < j => r[i].total_amount >= r[j].total_amount

C7_Witness ==
    /\ ~IsNone(repeated_data)
    /\ Len(Val(repeated_data)) = 1
    /\ Val(repeated_data)[1].item_name = <<"i", "C", "l", "o", "u", "d", "+">>
    /\ Val(repeated_data)[1].count = 2
    /\ Val(repeated_data)[1].total_amount = 10980
    /\ \E i, j \in 1..Len(transactions) :
           /\ transactions[i].item_name = <<"i","C","l","o","u","d","+"," ","5","0","G","B">>
           /\ transactions[j].item_name = <<"i","C","l","o","u","d","+"," ","2","T","B">>
    /\ \E i \in 1..Len(transactions) :
           CountWhere(WithKey(ClaimedKey(transactions[i].item_name))) = 1

WithDatePrefix(k, n) ==
    [i \in 1..Len(transactions) |-> SubSeq(transactions[i].date, 1, n) = k]

\* the entries of a view are those of the date prefixes of length n that
\* occur, each once, ascending by key, each with its amount sum
DateView(v, n) ==
    /\ \A i \in 1..Len(v) :
           /\ \E j \in 1..Len(transactions) : SubSeq(transactions[j].date, 1, n) = v[i].key
           /\ v[i].total_amount = TotalWhere(WithDatePrefix(v[i].key, n))
    /\ \A j \in 1..Len(transactions) :
           \E i \in 1..Len(v) : v[i].key = SubSeq(transactions[j].date, 1, n)
    /\ \A i, j \in 1..Len(v) : i < j => StrLess(v[i].key, v[j].key)

\* C8: the yearly view maps every year that occurs to the amount sum of its
\* transactions, the monthly view every month that occurs to their number
\* and amount sum; both are ascending by key without other keys, the yearly
\* totals, the monthly totals and the overall total agree and the monthly
\* counts add up to the number of transactions.
C8_YearlyAndMonthlyViews ==
    (~IsNone(yearly_data) /\ ~IsNone(monthly_data)) =>
        LET y == Val(yearly_data)
            m == Val(monthly_data)
        IN  /\ DateView(y, 4)
            /\ DateView(m, 7)
            /\ \A i \in 1..Len(m) : m[i].count = CountWhere(WithDatePrefix(m[i].key, 7))
            /\ SumOver([i \in 1..Len(y) |-> y[i].total_amount], Len(y))
                   = sum_amounts(transactions)
            /\ SumOver([i \in 1..Len(m) |-> m[i].total_amount], Len(m))
                   = sum_amounts(transactions)
            /\ SumOver([i \in 1..Len(m) |-> m[i].count], Len(m)) = Len(transactions)

C8_Witness ==
    /\ pc = "analyzed"
    /\ Len(transactions) = 4
    /\ Len(Val(yearly_data)) = 2
    /\ Len(Val(monthly_data)) = 3
    /\ transactions[1].date = <<"2","0","2","3","-","0","1","-","0","1">>
    /\ transactions[2].date = <<"2","0","2","2","-","0","7","-","1","5">>

\* the CSV row of a transaction
RowOf(t) ==
    [Date |-> t.date, ItemName |-> t.item_name, Amount |-> t.amount,
     Subscription |-> IF t.is_subscription THEN "Yes" ELSE "No"]

\* the place of the j-th transaction of ts in the ledger: after the
\* transactions of a later date and after the earlier ones of its own date
LedgerPlace(ts, j) ==
    1 + Cardinality({k \in 1..Len(ts) : StrLess(ts[j].date, ts[k].date)})
      + Cardinality({k \in 1..(j - 1) : ts[k].date = ts[j].date})

BlockYieldsNothing(b) ==
    \/ BlockInvalid(b)
    \/ \A i \in 1..Len(Val(b.items_list)) :
           LET it == Val(b.items_list)[i]
           IN  \/ IsNone(extract_item_name(it))
               \/ IsNone(it.price)
               \/ IsNone(extract_amount(it.price))

\* C10: a run over a document whose blocks all yield nothing ends normally
\* with an empty list and no output file; a run over any other document ends
\* with the CSV written first and the summary report second.
C10_OutputsOfTheRun ==
    pc \in {"done", "raised"} =>
        IF \A b \in 1..Len(doc) : BlockYieldsNothing(doc[b])
        THEN pc = "done" /\ Len(transactions) = 0 /\ outputs = <<>>
        ELSE pc = "done"
             /\ outputs = <<"apple_transactions.csv", "apple_transactions_summary.html">>

\* a text of the form YYYY-MM-DD with a month 01..12 and a day 01..31
CanonicalDate(d) ==
    /\ Len(d) = 10
    /\ \A i \in {1, 2, 3, 4, 6, 7, 9, 10} : d[i] \in Digits
    /\ d[5] = "-" /\ d[8] = "-"
    /\ DigitsToInt(SubSeq(d, 6, 7)) \in 1..12
    /\ DigitsToInt(SubSeq(d, 9, 10)) \in 1..31

\* C11: every transaction of the list has an item_name with at least one
\* character that is not whitespace, and a date of the form YYYY-MM-DD; the
\* transaction an item step appends carries the date parsed from the
\* invoice date of the block the item is in.
C11_NamesAndDates ==
    /\ \A i \in 1..Len(transactions) :
           /\ \E j \in 1..Len(transactions[i].item_name) :
                  transactions[i].item_name[j] \notin Whitespace
           /\ CanonicalDate(transactions[i].date)
    /\ (pc = "items" /\ item_i >= 1 /\ Len(transactions) > 0
           /\ item_name = Some(transactions[Len(transactions)].item_name)
           /\ amount = Some(transactions[Len(transactions)].amount)) =>
          Some(transactions[Len(transactions)].date)
              \in parse_date_outcomes(Val(doc[purchase_i].date_span))

====
